---- MODULE Spec2Model ----
(***************************************************************************)
(* Model of src/main.py: the HTTP-FLV load tester.                         *)
(*                                                                         *)
(* FLVLoadTester.run creates num_clients asyncio tasks (client_session),   *)
(* sleeps for the duration, clears self.running, gathers the tasks and     *)
(* prints the statistics in a finally block.  Each client_session creates  *)
(* its StreamMetrics, connects, and reads chunks while self.running,       *)
(* feeding each chunk to process_flv_packets.                              *)
(*                                                                         *)
(* One action is one step of one asyncio task between two suspension       *)
(* points (asyncio runs a task step atomically), or one event of the       *)
(* network or the clock.  Timestamps are integer clock ticks; a bitrate    *)
(* sample is kept as the exact quotient <<bits, seconds>>.                 *)
(***************************************************************************)
EXTENDS Integers, Sequences, FiniteSets, TLC

(* ---------------------------- bounds ---------------------------------- *)
\* largest number of clients a run is started with
MaxClients == 2
\* chunks the sources deliver in one run before the stop flag is set
MaxChunks == 3
\* largest clock reading
MaxTime == 2
\* chunks fed to the single accumulator of AccSpec
MaxFeed == 3
\* body length of the fixed-length source of BodySpec
BodyLen == 1000
\* longest input handed to parse_flv_header on its own
MaxHeader == 10
\* chunks recorded, over all sessions, before the report of ReportSpec
MaxSamples == 5

(* ------------------------ program constants --------------------------- *)
\* response.content.read(8192)
MaxRead == 8192

\* if len(data) < 9: the length of an FLV header
HeaderLen == 9
\* b'FLV'
Signature == <<70, 76, 86>>

\* clock readings fed to the accumulator on its own: any order, the epoch too
Times == 0..MaxTime
\* sizes of the chunks fed to the accumulator on its own
ChunkSizes == {1, MaxRead}
\* sizes of the chunks read in a run: a full read
RunSizes == {MaxRead}
Statuses == {200, 204, 404}

VARIABLES
  num_clients,      \* self.num_clients
  running,          \* self.running, the stop flag (FALSE = stop requested)
  client_metrics,   \* self.client_metrics: client_id -> StreamMetrics
  runpc,            \* where run() is: "init", "sleep", "gather", "done", "cancelled"
  sstate,           \* where each client_session is, or how it ended
  status,           \* response.status of each session, 0 before the response
  cause,            \* what each session logged when it ended
  fed,              \* per session, the <<size, time>> of every chunk recorded
  now,              \* what time.time() returns
  report,           \* what print_statistics produced, NoReport before
  header            \* the bytes handed to parse_flv_header and what it returned

vars == <<num_clients, running, client_metrics, runpc, sstate, status, cause,
          fed, now, report, header>>

Clients == 0..(num_clients - 1)

NoReport == [printed |-> FALSE]

\* client_session never calls parse_flv_header: no header is parsed in a run
NoHeader == [data |-> <<>>, outcome |-> "none"]

(* ------------------------- StreamMetrics ------------------------------ *)
\* StreamMetrics(start_time = t): the dataclass defaults and __post_init__
StreamMetrics(t) ==
  [total_bytes |-> 0, packet_count |-> 0, start_time |-> t,
   last_packet_time |-> 0, bitrates |-> <<>>, latencies |-> <<>>]

\* (len(data) * 8) / time_diff, kept as the exact quotient
Bitrate(size, time_diff) == <<size * 8, time_diff>>

\* HasLastPacket with no test: the first chunk is taken to have a predecessor
HasLastPacket_Always(m) == TRUE

\* the guard of the latency block: a previous chunk is known
HasLastPacket(m) == m.last_packet_time > 0

\* the latency block always appends the gap
AppendLatency(m, gap) == Append(m.latencies, gap)

\* the bitrate block appends only for a positive gap
AppendBitrate(m, size, time_diff) ==
  IF time_diff > 0 THEN Append(m.bitrates, Bitrate(size, time_diff))
  ELSE m.bitrates

\* CountChunk with the bytes of a chunk counted only when a previous chunk is
\* known
CountChunk_FirstDropped(m, size) ==
  [m EXCEPT !.total_bytes = IF m.last_packet_time > 0 THEN @ + size ELSE @,
            !.packet_count = @ + 1]

\* total_bytes += len(data); packet_count += 1
CountChunk(m, size) ==
  [m EXCEPT !.total_bytes = @ + size, !.packet_count = @ + 1]

\* process_flv_packets(data, client_id) with len(data) = size and
\* time.time() = current_time, applied to the session's metrics m
process_flv_packets(m, size, current_time) ==
  LET counted == CountChunk(m, size)
      gap == current_time - m.last_packet_time
      lat == IF HasLastPacket(m) THEN AppendLatency(m, gap) ELSE m.latencies
      bit == IF HasLastPacket(m) THEN AppendBitrate(m, size, gap) ELSE m.bitrates
  IN  [counted EXCEPT !.latencies = lat, !.bitrates = bit,
                      !.last_packet_time = current_time]

(* --------------------- the accumulator on its own ---------------------- *)
\* one session that is streaming, its metrics just created at time t
AccInit ==
  /\ num_clients = 1
  /\ running = TRUE
  /\ now \in Times
  /\ client_metrics = [i \in {0} |-> StreamMetrics(now)]
  /\ runpc = "sleep"
  /\ sstate = [i \in {0} |-> "reading"]
  /\ status = [i \in {0} |-> 200]
  /\ cause = [i \in {0} |-> "none"]
  /\ fed = [i \in {0} |-> <<>>]
  /\ report = NoReport
  /\ header = NoHeader

\* one call of process_flv_packets on session 0, the clock reading t
AccFeed(size, t) ==
  /\ Len(fed[0]) < MaxFeed
  /\ now' = t
  /\ client_metrics' = [client_metrics EXCEPT ![0] = process_flv_packets(@, size, t)]
  /\ fed' = [fed EXCEPT ![0] = Append(@, <<size, t>>)]
  /\ UNCHANGED <<header, num_clients, running, runpc, sstate, status, cause, report>>

AccNext == \E size \in ChunkSizes, t \in Times : AccFeed(size, t)

AccSpec == AccInit /\ [][AccNext]_vars

RECURSIVE SumSizes(_)
\* the sum of the sizes of a sequence of <<size, time>> chunks
SumSizes(chunks) ==
  IF chunks = <<>> THEN 0
  ELSE chunks[Len(chunks)][1] + SumSizes(SubSeq(chunks, 1, Len(chunks) - 1))

(* ------------------------- print_statistics ---------------------------- *)
RECURSIVE SumSeq(_)
\* sum(xs)
SumSeq(xs) == IF xs = <<>> THEN 0 ELSE Head(xs) + SumSeq(Tail(xs))

RECURSIVE MaxSeq(_)
\* max(xs) of a non-empty sequence
MaxSeq(xs) ==
  IF Len(xs) = 1 THEN xs[1]
  ELSE LET r == MaxSeq(Tail(xs)) IN IF xs[1] >= r THEN xs[1] ELSE r

RECURSIVE SumQ(_)
\* the sum of a sequence of quotients <<a, b>>, as a quotient
SumQ(qs) ==
  IF qs = <<>> THEN <<0, 1>>
  ELSE LET r == SumQ(Tail(qs))
       IN  <<qs[1][1] * r[2] + r[1] * qs[1][2], qs[1][2] * r[2]>>

\* statistics.mean(xs) of integers, <<>> when xs is empty (nothing is logged)
MeanOf(xs) == IF xs = <<>> THEN <<>> ELSE <<SumSeq(xs), Len(xs)>>

\* statistics.mean(qs) of quotients, <<>> when qs is empty
MeanOfQ(qs) == IF qs = <<>> THEN <<>> ELSE <<SumQ(qs)[1], SumQ(qs)[2] * Len(qs)>>

\* ClientDuration without the test for a first chunk
ClientDuration_Unguarded(m) == m.last_packet_time - m.start_time

\* duration = last_packet_time - start_time if last_packet_time > 0 else 0
ClientDuration(m) ==
  IF m.last_packet_time > 0 THEN m.last_packet_time - m.start_time ELSE 0

\* mbps = (total_bytes * 8) / (1024 * 1024 * duration) if duration > 0 else 0
ClientMbps(m) ==
  IF ClientDuration(m) > 0
  THEN <<m.total_bytes * 8, 1024 * 1024 * ClientDuration(m)>>
  ELSE <<0, 1>>

\* the per-client block of the report
ClientEntry(m) ==
  [total_bytes |-> m.total_bytes,
   mbps |-> ClientMbps(m),
   packet_count |-> m.packet_count,
   duration |-> ClientDuration(m),
   avg_latency |-> MeanOf(m.latencies),
   max_latency |-> IF m.latencies = <<>> THEN <<>> ELSE <<MaxSeq(m.latencies)>>]

\* ExtendAll with the list assigned, not extended: the last client's samples
ExtendAll_Assigned(metrics, f, k) == IF k = 0 THEN <<>> ELSE metrics[k - 1][f]

RECURSIVE ExtendAll(_, _, _)
\* all_bitrates / all_latencies: field f of the first k clients, in the
\* order of self.client_metrics.items() (the order the sessions started in)
ExtendAll(metrics, f, k) ==
  IF k = 0 THEN <<>> ELSE ExtendAll(metrics, f, k - 1) \o metrics[k - 1][f]

\* AddAll with the total assigned, not added to: the last client's value
AddAll_Assigned(metrics, f, k) == IF k = 0 THEN 0 ELSE metrics[k - 1][f]

RECURSIVE AddAll(_, _, _)
\* total_bytes / total_packets: field f summed over the first k clients
AddAll(metrics, f, k) ==
  IF k = 0 THEN 0 ELSE AddAll(metrics, f, k - 1) + metrics[k - 1][f]

\* print_statistics with all_bitrates bound to the first client's list, not
\* to a new one: extending it writes to that client's accumulator
MetricsAfterReport_Aliased(metrics) ==
  IF DOMAIN metrics = {} THEN metrics
  ELSE [metrics EXCEPT ![0].bitrates =
          ExtendAll(metrics, "bitrates", Cardinality(DOMAIN metrics))]

\* print_statistics(): what it leaves in self.client_metrics.  It reads the
\* fields and extends only its own lists all_bitrates and all_latencies.
MetricsAfterReport(metrics) == metrics

\* print_statistics(): what is logged, from self.client_metrics
print_statistics(metrics) ==
  LET k == Cardinality(DOMAIN metrics) IN
  [printed |-> TRUE,
   clients |-> [i \in DOMAIN metrics |-> ClientEntry(metrics[i])],
   total_clients |-> num_clients,
   total_bytes |-> AddAll(metrics, "total_bytes", k),
   total_packets |-> AddAll(metrics, "packet_count", k),
   all_bitrates |-> ExtendAll(metrics, "bitrates", k),
   all_latencies |-> ExtendAll(metrics, "latencies", k),
   avg_bitrate |-> MeanOfQ(ExtendAll(metrics, "bitrates", k)),
   avg_latency |-> MeanOf(ExtendAll(metrics, "latencies", k))]

(* --------------------------- the run ----------------------------------- *)
\* after __init__: no task, no metrics, the flag unset
Init ==
  /\ num_clients \in 1..MaxClients
  /\ running = TRUE
  /\ client_metrics = [i \in {} |-> StreamMetrics(0)]
  /\ runpc = "init"
  /\ sstate = [i \in Clients |-> "uncreated"]
  /\ status = [i \in Clients |-> 0]
  /\ cause = [i \in Clients |-> "none"]
  /\ fed = [i \in Clients |-> <<>>]
  /\ now = 1
  /\ report = NoReport
  /\ header = NoHeader

Terminal(i) == sstate[i] \in {"Completed", "Failed", "Cancelled"}
Started(i) == sstate[i] \notin {"uncreated", "pending"}

\* the event loop runs the first step of every task created before the
\* sleep, in order, before it polls the network or fires a timer
AllStarted == \A i \in Clients : Started(i)

\* chunks delivered so far, over all sessions
RECURSIVE TotalFed(_)
TotalFed(k) == IF k = 0 THEN 0 ELSE TotalFed(k - 1) + Len(fed[k - 1])

\* the sources deliver MaxChunks chunks in a run
CanDeliver == TotalFed(num_clients) < MaxChunks

\* End with a failure that also ends the sessions that are reading
End_FailureEndsReaders(i, how, why) ==
  /\ sstate' = [j \in Clients |->
                  IF j = i THEN how
                  ELSE IF how = "Failed" /\ sstate[j] = "reading" THEN "Cancelled"
                  ELSE sstate[j]]
  /\ cause' = [cause EXCEPT ![i] = why]

\* a session ends: its state and what it logged
End(i, how, why) ==
  /\ sstate' = [sstate EXCEPT ![i] = how]
  /\ cause' = [cause EXCEPT ![i] = why]

\* OkStatus accepting every 2xx status
OkStatus_Any2xx(st) == st >= 200 /\ st < 300

\* if response.status != 200: return
OkStatus(st) == st = 200

\* a read loop that never looks at the flag
WhileRunning_Forever == TRUE

\* while self.running:
WhileRunning == running

\* LoopHead of a loop that tests the flag only after its first read
LoopHead_ReadFirst(i) ==
  IF WhileRunning \/ fed[i] = <<>>
  THEN sstate' = [sstate EXCEPT ![i] = "reading"] /\ UNCHANGED cause
  ELSE End(i, "Cancelled", "Stopped")

\* the head of the read loop: start the next read, or leave the loop
LoopHead(i) ==
  IF WhileRunning
  THEN sstate' = [sstate EXCEPT ![i] = "reading"] /\ UNCHANGED cause
  ELSE End(i, "Cancelled", "Stopped")

\* SetMetrics with one StreamMetrics object shared by every session
SetMetrics_Shared(metrics, i, m) == [j \in DOMAIN metrics \cup {i} |-> m]

\* self.client_metrics[client_id] = metrics, and the writes process_flv_packets
\* makes to that object: the entry of session i becomes m
SetMetrics(metrics, i, m) ==
  [j \in DOMAIN metrics \cup {i} |-> IF j = i THEN m ELSE metrics[j]]

\* run(): tasks = [asyncio.create_task(...)]; await asyncio.sleep(duration)
CreateTasks ==
  /\ runpc = "init"
  /\ runpc' = "sleep"
  /\ sstate' = [i \in Clients |-> "pending"]
  /\ UNCHANGED <<header, num_clients, running, client_metrics, status, cause, fed, now, report>>

\* client_session, first step: the metrics are created, the connection is
\* requested.  The event loop starts the tasks in the order they were created.
StartSession(i) ==
  /\ sstate[i] = "pending"
  /\ \A j \in Clients : j < i => sstate[j] # "pending"
  /\ client_metrics' = SetMetrics(client_metrics, i, StreamMetrics(now))
  /\ sstate' = [sstate EXCEPT ![i] = "connecting"]
  /\ UNCHANGED <<header, num_clients, running, runpc, status, cause, fed, now, report>>

\* session.get raises (no connection, connect timeout): except Exception
ConnectError(i) ==
  /\ sstate[i] = "connecting"
  /\ AllStarted
  /\ End(i, "Failed", "ConnectFailure")
  /\ UNCHANGED <<header, num_clients, running, client_metrics, runpc, status, fed, now, report>>

\* the response arrives with status st
Connected(i, st) ==
  /\ sstate[i] = "connecting"
  /\ AllStarted
  /\ status' = [status EXCEPT ![i] = st]
  /\ IF OkStatus(st) THEN LoopHead(i) ELSE End(i, "Failed", "UnexpectedStatus")
  /\ UNCHANGED <<header, num_clients, running, client_metrics, runpc, fed, now, report>>

\* response.content.read returns a non-empty chunk of size bytes at time t
ReadChunk(i, size) ==
  /\ sstate[i] = "reading"
  /\ client_metrics' =
       SetMetrics(client_metrics, i, process_flv_packets(client_metrics[i], size, now))
  /\ fed' = [fed EXCEPT ![i] = Append(@, <<size, now>>)]
  /\ LoopHead(i)
  /\ UNCHANGED <<header, num_clients, running, runpc, status, now, report>>

\* response.content.read returns b'': end of stream
ReadEOF(i) ==
  /\ sstate[i] = "reading"
  /\ End(i, "Completed", "EndOfStream")
  /\ UNCHANGED <<header, num_clients, running, client_metrics, runpc, status, fed, now, report>>

\* response.content.read raises: except Exception, break
ReadError(i) ==
  /\ sstate[i] = "reading"
  /\ End(i, "Failed", "ReadFailure")
  /\ UNCHANGED <<header, num_clients, running, client_metrics, runpc, status, fed, now, report>>

\* asyncio.CancelledError is raised at the await the session is suspended at,
\* once run() was cancelled: except asyncio.CancelledError
TaskCancelled(i) ==
  /\ runpc = "cancelled"
  /\ sstate[i] \in {"connecting", "reading"}
  /\ End(i, "Cancelled", "CancelledError")
  /\ UNCHANGED <<header, num_clients, running, client_metrics, runpc, status, fed, now, report>>

\* the clock advances while a session may still read it (readings that go
\* backwards are fed to the accumulator in AccSpec)
ClockStep ==
  /\ now < MaxTime
  /\ \E i \in Clients : sstate[i] \in {"pending", "connecting", "reading"}
  /\ now' = now + 1
  /\ UNCHANGED <<header, num_clients, running, client_metrics, runpc, sstate, status,
                 cause, fed, report>>

\* StopFlag of a run() that leaves the flag as it is
StopFlag_LeftUnset == TRUE

\* self.running = False
StopFlag == FALSE

\* run(): the sleep returns; self.running = False; await asyncio.gather(...)
\* The timer fires after every task created before the sleep has started.
DurationElapsed ==
  /\ runpc = "sleep"
  /\ AllStarted
  /\ running' = StopFlag
  /\ runpc' = "gather"
  /\ UNCHANGED <<header, num_clients, client_metrics, sstate, status, cause, fed, now, report>>

\* what gather(*tasks, return_exceptions=True) waits for
GatherReady == \A i \in Clients : Terminal(i)

\* run(): gather returns; finally: self.print_statistics()
GatherDone ==
  /\ runpc = "gather"
  /\ GatherReady
  /\ report' = print_statistics(client_metrics)
  /\ client_metrics' = MetricsAfterReport(client_metrics)
  /\ runpc' = "done"
  /\ UNCHANGED <<header, num_clients, running, sstate, status, cause, fed, now>>

\* run() is cancelled while it awaits the sleep or the gather (Ctrl-C under
\* asyncio.run): CancelledError is no Exception, so only the finally block
\* runs, and the tasks still running are cancelled afterwards.
Interrupt ==
  /\ runpc \in {"sleep", "gather"}
  /\ AllStarted
  /\ report' = print_statistics(client_metrics)
  /\ client_metrics' = MetricsAfterReport(client_metrics)
  /\ runpc' = "cancelled"
  /\ UNCHANGED <<header, num_clients, running, sstate, status, cause, fed, now>>

Next ==
  \/ CreateTasks
  \/ DurationElapsed
  \/ GatherDone
  \/ Interrupt
  \/ ClockStep
  \/ \E i \in Clients : StartSession(i)
  \/ \E i \in Clients : ConnectError(i)
  \/ \E i \in Clients, st \in Statuses : Connected(i, st)
  \/ \E i \in Clients, size \in RunSizes : CanDeliver /\ ReadChunk(i, size)
  \/ \E i \in Clients : ReadEOF(i)
  \/ \E i \in Clients : ReadError(i)
  \/ \E i \in Clients : TaskCancelled(i)

Spec == Init /\ [][Next]_vars

\* Spec with the scheduling the event loop guarantees: a runnable task step is
\* run, the sleep ends, a connection attempt ends (connect=10 bounds it), a
\* cancelled task is woken.  Nothing bounds a chunk read
\* (ClientTimeout(total=None, connect=10) sets no read timeout), so the
\* network owes no step to a session that waits in a read.
FairSpec ==
  /\ Spec
  /\ WF_vars(CreateTasks)
  /\ WF_vars(DurationElapsed)
  /\ WF_vars(GatherDone)
  /\ \A i \in 0..(MaxClients - 1) :
       /\ WF_vars(i \in Clients /\ StartSession(i))
       /\ WF_vars(i \in Clients
                    /\ (ConnectError(i) \/ \E st \in Statuses : Connected(i, st)))
       /\ WF_vars(i \in Clients /\ TaskCancelled(i))

(* ---------------- a source that streams without end -------------------- *)
\* the source has a chunk for every read: MaxChunks before the stop flag is
\* set, and the read each session has in flight when it is set
StreamChunk(i) ==
  /\ TotalFed(num_clients) < MaxChunks + (IF running THEN 0 ELSE num_clients)
  /\ \E size \in RunSizes : ReadChunk(i, size)

StreamNext ==
  \/ CreateTasks
  \/ DurationElapsed
  \/ GatherDone
  \/ ClockStep
  \/ \E i \in Clients : StartSession(i)
  \/ \E i \in Clients : Connected(i, 200)
  \/ \E i \in Clients : StreamChunk(i)

\* every session is answered 200 and every read is answered with a chunk
StreamSpec ==
  /\ Init
  /\ [][StreamNext]_vars
  /\ WF_vars(CreateTasks)
  /\ WF_vars(DurationElapsed)
  /\ WF_vars(GatherDone)
  /\ \A i \in 0..(MaxClients - 1) :
       /\ WF_vars(i \in Clients /\ StartSession(i))
       /\ WF_vars(i \in Clients /\ Connected(i, 200))
       /\ WF_vars(i \in Clients /\ StreamChunk(i))

(* ------------- a source that serves BodyLen bytes and closes ----------- *)
\* the bytes the source has sent to session i
Served(i) == SumSizes(fed[i])

\* the next chunk: half the body, or all that is left of it
BodySizes(left) == {size \in {BodyLen \div 2, left} : size >= 1 /\ size <= left}

BodyChunk(i) ==
  \E size \in BodySizes(BodyLen - Served(i)) : ReadChunk(i, size)

\* the source closes after the last byte
BodyEOF(i) == Served(i) = BodyLen /\ ReadEOF(i)

BodyNext ==
  \/ CreateTasks
  \/ DurationElapsed
  \/ GatherDone
  \/ ClockStep
  \/ \E i \in Clients : StartSession(i)
  \/ \E i \in Clients : Connected(i, 200)
  \/ \E i \in Clients : BodyChunk(i)
  \/ \E i \in Clients : BodyEOF(i)

BodySpec == Init /\ [][BodyNext]_vars

(* ----------------------- parse_flv_header ------------------------------ *)
\* data[:3]: the first three bytes, or all of them when there are fewer
Prefix(data) == SubSeq(data, 1, IF Len(data) < 3 THEN Len(data) ELSE 3)

\* parse_flv_header without the length test
parse_flv_header_NoLengthTest(data) == Prefix(data) = Signature

\* parse_flv_header(data): False for a short input, False for a wrong
\* signature, True otherwise; version, flags and header_size are only logged,
\* and struct.unpack of data[5:9] cannot fail on 9 bytes or more
parse_flv_header(data) ==
  IF Len(data) < HeaderLen THEN FALSE
  ELSE IF Prefix(data) # Signature THEN FALSE
  ELSE TRUE

\* how a call of parse_flv_header ends: it returns a bool; the except clause
\* of the function turns every exception into return False
Outcome(data) == IF parse_flv_header(data) THEN "True" ELSE "False"

\* the byte values tried at position k: 'F', 'L', 'V', 'X' in the signature,
\* two versions, and 0 or 9 in the flags and the header size
BytesAt(k) ==
  IF k <= 3 THEN {70, 76, 86, 88} ELSE IF k = 4 THEN {0, 1} ELSE {0, 9}

RECURSIVE HeaderInputs(_)
\* the inputs of length n
HeaderInputs(n) ==
  IF n = 0 THEN {<<>>}
  ELSE {Append(d, b) : d \in HeaderInputs(n - 1), b \in BytesAt(n)}

\* the validator is handed some bytes, outside any run
HeaderInit ==
  /\ num_clients = 1
  /\ running = TRUE
  /\ client_metrics = [i \in {} |-> StreamMetrics(0)]
  /\ runpc = "init"
  /\ sstate = [i \in {0} |-> "uncreated"]
  /\ status = [i \in {0} |-> 0]
  /\ cause = [i \in {0} |-> "none"]
  /\ fed = [i \in {0} |-> <<>>]
  /\ now = 1
  /\ report = NoReport
  /\ \E n \in 0..MaxHeader :
       \E d \in HeaderInputs(n) : header = [data |-> d, outcome |-> "none"]

\* await self.parse_flv_header(data)
ParseHeader ==
  /\ header.outcome = "none"
  /\ header' = [header EXCEPT !.outcome = Outcome(header.data)]
  /\ UNCHANGED <<num_clients, running, client_metrics, runpc, sstate, status,
                 cause, fed, now, report>>

HeaderNext == ParseHeader

HeaderSpec == HeaderInit /\ [][HeaderNext]_vars

(* ------------------------ the report on its own ----------------------- *)
\* every session is streaming, its metrics created at the same clock reading
ReportInit ==
  /\ num_clients \in 1..MaxClients
  /\ running = TRUE
  /\ now = 1
  /\ client_metrics = [i \in Clients |-> StreamMetrics(now)]
  /\ runpc = "sleep"
  /\ sstate = [i \in Clients |-> "reading"]
  /\ status = [i \in Clients |-> 200]
  /\ cause = [i \in Clients |-> "none"]
  /\ fed = [i \in Clients |-> <<>>]
  /\ report = NoReport
  /\ header = NoHeader

\* session i records a chunk before the report; the sessions are filled one
\* after the other, the order of the calls does not show in the accumulators
ReportFeed(i, size) ==
  /\ runpc = "sleep"
  /\ TotalFed(num_clients) < MaxSamples
  /\ \A j \in Clients : j > i => fed[j] = <<>>
  /\ client_metrics' =
       [client_metrics EXCEPT ![i] = process_flv_packets(@, size, now)]
  /\ fed' = [fed EXCEPT ![i] = Append(@, <<size, now>>)]
  /\ UNCHANGED <<header, num_clients, running, runpc, sstate, status, cause, now, report>>

\* the clock advances between two chunks
ReportTick ==
  /\ runpc = "sleep"
  /\ now < MaxTime
  /\ now' = now + 1
  /\ UNCHANGED <<header, num_clients, running, client_metrics, runpc, sstate,
                 status, cause, fed, report>>

\* self.print_statistics(), a first time and then once more over the same
\* accumulators
PrintStatistics ==
  /\ runpc \in {"sleep", "done"}
  /\ report' = print_statistics(client_metrics)
  /\ client_metrics' = MetricsAfterReport(client_metrics)
  /\ runpc' = IF runpc = "sleep" THEN "done" ELSE "again"
  /\ UNCHANGED <<header, num_clients, running, sstate, status, cause, fed, now>>

ReportNext ==
  \/ ReportTick
  \/ PrintStatistics
  \/ \E i \in Clients, size \in ChunkSizes : ReportFeed(i, size)

ReportSpec == ReportInit /\ [][ReportNext]_vars

(* ------------------- claims about the accumulator ---------------------- *)
\* every arrival time is strictly greater than the one before it
StrictlyIncreasing(chunks) ==
  \A k \in 1..(Len(chunks) - 1) : chunks[k][2] < chunks[k + 1][2]

\* the chunk the step just recorded for session i, when it recorded one
Recorded(i) == fed'[i] # fed[i]
LastFed(i) == fed'[i][Len(fed'[i])]

\* C3: a chunk that arrives with a zero or negative gap after an earlier chunk
\* appends nothing to latencies and nothing to bitrates, while total_bytes,
\* packet_count and last_packet_time are updated.
C3_NonPositiveGapNotRecorded ==
  [][\A i \in DOMAIN client_metrics :
       LET m == client_metrics[i]
           n == client_metrics'[i]
       IN  (Recorded(i) /\ m.packet_count > 0
              /\ LastFed(i)[2] - m.last_packet_time <= 0)
           => /\ n.latencies = m.latencies
              /\ n.bitrates = m.bitrates
              /\ n.total_bytes = m.total_bytes + LastFed(i)[1]
              /\ n.packet_count = m.packet_count + 1
              /\ n.last_packet_time = LastFed(i)[2]]_vars

\* the counters of every accumulator agree with the chunks it was fed
CountersMatch ==
  \A i \in DOMAIN client_metrics :
    /\ client_metrics[i].total_bytes = SumSizes(fed[i])
    /\ client_metrics[i].packet_count = Len(fed[i])

\* C4: after each chunk total_bytes is the sum of the sizes of all chunks
\* recorded so far and packet_count is their number, whatever the gaps are;
\* total_bytes never decreases.
C4_CountersMatchChunks ==
  /\ []CountersMatch
  /\ [][\A i \in DOMAIN client_metrics :
          client_metrics'[i].total_bytes >= client_metrics[i].total_bytes]_vars

\* C4 witness: three chunks recorded, the second with a zero gap and the
\* third with a negative one
C4_Witness ==
  /\ Len(fed[0]) = 3
  /\ fed[0][2][2] = fed[0][1][2]
  /\ fed[0][3][2] < fed[0][2][2]
  /\ client_metrics[0].total_bytes = 2 * MaxRead + 1

\* C5: one or more chunks with strictly increasing arrival times, the first
\* of which may be the smallest timestamp, leave latencies and bitrates with
\* packet_count - 1 entries each.
C5_PositiveGapsAllRecorded ==
  \A i \in DOMAIN client_metrics :
    (Len(fed[i]) >= 1 /\ StrictlyIncreasing(fed[i]))
    => /\ Len(client_metrics[i].latencies) = client_metrics[i].packet_count - 1
       /\ Len(client_metrics[i].bitrates) = client_metrics[i].packet_count - 1

(* ----------------------- claims about the run -------------------------- *)
\* C1: print_statistics begins only after every session is terminal, also
\* when run() is interrupted while it waits; no session records a chunk once
\* the report is produced.
C1_ReportAfterAllTerminal ==
  [][/\ (report' # report) => \A i \in Clients : Terminal(i)
     /\ report.printed => client_metrics' = client_metrics]_vars

\* C2: once the stop flag is set, every session eventually reaches a terminal
\* state and the run eventually produces the report, even when a pending read
\* never returns.
C2_StopLeadsToReport ==
  (~running) ~> (report.printed /\ \A i \in Clients : Terminal(i))

\* C6: a session that ends (connect failure, non-success status, read error,
\* cancellation) changes nothing but itself: not the stop flag, not run(), not
\* the report, not the state or the metrics of any other session.
C6_FailureIsLocal ==
  [][\A i \in Clients :
       (~Terminal(i) /\ Terminal(i)')
       => /\ running' = running
          /\ runpc' = runpc
          /\ report' = report
          /\ \A j \in Clients \ {i} :
               /\ sstate'[j] = sstate[j]
               /\ cause'[j] = cause[j]
               /\ fed'[j] = fed[j]
               /\ j \in DOMAIN client_metrics
                    => client_metrics'[j] = client_metrics[j]]_vars

\* C6 witness: one session has failed without a chunk, the run goes on and
\* another session has recorded a chunk and waits for the next
C6_Witness ==
  /\ runpc = "sleep" /\ running
  /\ \E i, j \in Clients :
       /\ sstate[i] = "Failed" /\ fed[i] = <<>>
       /\ sstate[j] = "reading" /\ Len(fed[j]) >= 1
       /\ fed[j][1][2] > client_metrics[i].start_time

\* C7: a report has exactly one entry for every session 0..N-1, and the entry
\* of a session that received no chunk has total_bytes 0, packet_count 0,
\* duration 0 and bitrate 0.
C7_ReportHasEveryClient ==
  report.printed =>
    /\ DOMAIN report.clients = Clients
    /\ \A i \in Clients :
         fed[i] = <<>> =>
           /\ report.clients[i].total_bytes = 0
           /\ report.clients[i].packet_count = 0
           /\ report.clients[i].duration = 0
           /\ report.clients[i].mbps[1] = 0

\* C7 witness: every session of a two-client run was answered 404 and the
\* report is out
C7_Witness ==
  /\ runpc = "done" /\ report.printed
  /\ num_clients = 2
  /\ \A i \in Clients : status[i] = 404 /\ sstate[i] = "Failed"

C9_StopCancelsAll ==
  (~running) ~> (runpc = "done" /\ \A i \in Clients : sstate[i] = "Cancelled")

\* C9 witness: the run of two clients is done, both ended Cancelled on the
\* flag, one of them after the chunk that was in flight
C9_Witness ==
  /\ runpc = "done" /\ num_clients = 2
  /\ \A i \in Clients : sstate[i] = "Cancelled" /\ cause[i] = "Stopped"
  /\ \E i \in Clients : fed[i] # <<>> /\ fed[i][Len(fed[i])][2] > 1

\* C10 as stated: against a source that serves BodyLen bytes and closes, every
\* session ends Completed with total_bytes = BodyLen and the report's total is
\* BodyLen * N.
C10_AllCompleted ==
  runpc = "done" =>
    /\ \A i \in Clients :
         sstate[i] = "Completed" /\ client_metrics[i].total_bytes = BodyLen
    /\ report.total_bytes = BodyLen * num_clients

\* C10 amended: a session that reads the end of the stream before it sees the
\* stop flag ends Completed with total_bytes = BodyLen; one that sees the flag
\* first ends Cancelled with at most BodyLen bytes; no session fails; when all
\* N sessions ended Completed the report's total is BodyLen * N.
C10_CompletedHaveBody ==
  /\ \A i \in DOMAIN client_metrics :
       /\ Terminal(i) => sstate[i] \in {"Completed", "Cancelled"}
       /\ sstate[i] = "Completed" => client_metrics[i].total_bytes = BodyLen
       /\ sstate[i] = "Cancelled" =>
            ~running /\ client_metrics[i].total_bytes <= BodyLen
  /\ (runpc = "done" /\ \A i \in Clients : sstate[i] = "Completed")
       => report.total_bytes = BodyLen * num_clients

\* C10 witness: both sessions ended Completed, one of them after two chunks,
\* and the report's total is twice the body
C10_Witness ==
  /\ runpc = "done" /\ num_clients = 2
  /\ \A i \in Clients : sstate[i] = "Completed"
  /\ Len(fed[0]) = 2 /\ Len(fed[1]) = 1
  /\ report.total_bytes = 2 * BodyLen

(* ---------------------- claims about the validator --------------------- *)
\* the call has ended and handed back the boolean b
Returned(b) == header.outcome = (IF b THEN "True" ELSE "False")

\* the input is at least 9 bytes long and starts with the signature
WellFormed == Len(header.data) >= HeaderLen /\ Prefix(header.data) = Signature

StartsStreaming(i) == sstate[i] = "connecting" /\ sstate'[i] = "reading"

\* C12: the session supports both header-check modes: with the check enabled
\* a connected session starts streaming only once the validator has accepted
\* the 9 bytes it read (a short read or a rejection fails it with no chunk
\* recorded); with the check disabled it goes from Connecting straight to
\* Streaming, no header read.
C12_BothHeaderModes ==
  [][\A check \in BOOLEAN : \A i \in Clients :
       StartsStreaming(i) =>
         IF check
         THEN /\ Len(header'.data) = HeaderLen
              /\ header'.outcome = "True"
         ELSE header' = header]_vars

(* ------------------------ claims about the report ---------------------- *)
\* C13: print_statistics leaves every field of every session's accumulator
\* unchanged, so a second call over the same accumulators produces the same
\* output as the first.
C13_ReportReadsOnly ==
  [][/\ report' # report => client_metrics' = client_metrics
     /\ runpc' = "again" => (client_metrics' = client_metrics /\ report' = report)]_vars

\* the report was produced twice over two sessions that hold samples
C13_Witness ==
  /\ runpc = "again"
  /\ num_clients = 2
  /\ \A i \in Clients : client_metrics[i].latencies # <<>>
  /\ \E i \in Clients : client_metrics[i].bitrates # <<>>

RECURSIVE SamplesBefore(_, _)
\* the number of samples in field f of the sessions before session i
SamplesBefore(f, i) ==
  IF i = 0 THEN 0 ELSE SamplesBefore(f, i - 1) + Len(client_metrics[i - 1][f])

\* all holds every sample of field f of every session, each exactly once
EverySampleOnce(all, f) ==
  /\ Len(all) = SamplesBefore(f, num_clients)
  /\ \A i \in Clients : \A k \in 1..Len(client_metrics[i][f]) :
       all[SamplesBefore(f, i) + k] = client_metrics[i][f][k]

RECURSIVE FieldSum(_, _)
\* field f of the accumulators of the sessions in S, summed
FieldSum(f, S) ==
  IF S = {} THEN 0
  ELSE LET i == CHOOSE x \in S : TRUE
       IN  client_metrics[i][f] + FieldSum(f, S \ {i})

RECURSIVE LatencySum(_)
\* the latency samples of the sessions in S, summed
LatencySum(S) ==
  IF S = {} THEN 0
  ELSE LET i == CHOOSE x \in S : TRUE
       IN  SumSeq(client_metrics[i].latencies) + LatencySum(S \ {i})

RECURSIVE BitrateSum(_)
\* the bitrate samples of the sessions in S, summed, as a quotient
BitrateSum(S) ==
  IF S = {} THEN <<0, 1>>
  ELSE LET i == CHOOSE x \in S : TRUE
           a == SumQ(client_metrics[i].bitrates)
           b == BitrateSum(S \ {i})
       IN  <<a[1] * b[2] + b[1] * a[2], a[2] * b[2]>>

\* two quotients of the same value
SameQ(a, b) == a[1] * b[2] = b[1] * a[2]

\* C14: the overall averages are taken over all the latency samples and all
\* the bitrate samples of all sessions, every sample counted exactly once,
\* not over per-session means; the overall total bytes and total packets are
\* the sums of the per-session total_bytes and packet_count.
C14_OverallOverAllSamples ==
  report.printed =>
    /\ EverySampleOnce(report.all_latencies, "latencies")
    /\ EverySampleOnce(report.all_bitrates, "bitrates")
    /\ report.total_bytes = FieldSum("total_bytes", Clients)
    /\ report.total_packets = FieldSum("packet_count", Clients)
    /\ IF SamplesBefore("latencies", num_clients) = 0
       THEN report.avg_latency = <<>>
       ELSE report.avg_latency =
              <<LatencySum(Clients), SamplesBefore("latencies", num_clients)>>
    /\ IF SamplesBefore("bitrates", num_clients) = 0
       THEN report.avg_bitrate = <<>>
       ELSE SameQ(report.avg_bitrate,
                  <<BitrateSum(Clients)[1],
                    BitrateSum(Clients)[2] * SamplesBefore("bitrates", num_clients)>>)

\* two sessions were reported whose mean of means is not the overall mean
C14_Witness ==
  /\ report.printed
  /\ num_clients = 2
  /\ \A i \in Clients : client_metrics[i].latencies # <<>>
  /\ \E i \in Clients : client_metrics[i].bitrates # <<>>
  /\ LET s0 == SumSeq(client_metrics[0].latencies)
         c0 == Len(client_metrics[0].latencies)
         s1 == SumSeq(client_metrics[1].latencies)
         c1 == Len(client_metrics[1].latencies)
     IN  (s0 * c1 + s1 * c0) * (c0 + c1) # 2 * c0 * c1 * (s0 + s1)

(* ----------------------- claims about the stop flag -------------------- *)
\* C15: the flag is observed before every read: once it is set no session
\* starts a read, so a session records at most the one chunk of the read it
\* had in flight when the flag was set, and a session that had no read in
\* flight then records none.
C15_FlagSeenBeforeEveryRead ==
  [][~running =>
       \A i \in Clients :
         /\ fed'[i] # fed[i] => sstate[i] = "reading"
         /\ sstate'[i] = "reading" => (sstate[i] = "reading" /\ fed'[i] = fed[i])]_vars

\* after the flag was set one session left the loop with the chunk of its last
\* read recorded, and another left it before its first read
C15_Witness ==
  /\ ~running
  /\ \E i \in Clients : cause[i] = "Stopped" /\ fed[i] # <<>>
  /\ \E j \in Clients : cause[j] = "Stopped" /\ fed[j] = <<>>

(* ------------------ claims about who writes an accumulator ------------- *)
\* the step creates the accumulator of session i or changes it
Written(i) ==
  \/ i \notin DOMAIN client_metrics
  \/ client_metrics'[i] # client_metrics[i]

\* the step is the first step of session i, or one in which it records a chunk
OwnStep(i) ==
  \/ sstate[i] = "pending" /\ sstate'[i] = "connecting"
  \/ sstate[i] = "reading" /\ Recorded(i)

\* C16: the accumulator of a session exists from the session's first step on
\* and is written only by that session: no step of another session, of run()
\* or of print_statistics changes it, and it never changes once the session
\* has reached a terminal state.
C16_SingleWriter ==
  /\ [](DOMAIN client_metrics = {i \in Clients : Started(i)})
  /\ [][\A i \in DOMAIN client_metrics' :
          Written(i) =>
            /\ ~Terminal(i)
            /\ OwnStep(i)
            /\ \A j \in Clients \ {i} : sstate'[j] = sstate[j] /\ fed'[j] = fed[j]
            /\ runpc' = runpc /\ report' = report /\ running' = running]_vars

\* two sessions recorded chunks into accumulators that differ, one of them
\* has ended, and the report was produced
C16_Witness ==
  /\ num_clients = 2
  /\ report.printed
  /\ \A i \in Clients : client_metrics[i].packet_count >= 1
  /\ client_metrics[0] # client_metrics[1]
  /\ \E i \in Clients : Terminal(i)

\* C17: the stop flag starts unset and stays unset until the duration wait of
\* run() has completed; it is set in the step of run() that follows the wait,
\* which is no step of a session; it changes only once and, once set, is never
\* cleared.
C17_FlagWriteOnce ==
  /\ [](runpc \in {"init", "sleep"} => running)
  /\ [](runpc \in {"gather", "done"} => ~running)
  /\ [][running' # running =>
          /\ running /\ ~running'
          /\ runpc = "sleep" /\ runpc' = "gather"
          /\ sstate' = sstate /\ fed' = fed
          /\ client_metrics' = client_metrics]_vars

\* the run has ended with the flag set, after a session recorded a chunk
C17_Witness ==
  /\ ~running
  /\ runpc = "done"
  /\ \E i \in Clients : fed[i] # <<>>

(* ---------------- claims about the shape of an accumulator ------------- *)
\* C18: a session that has recorded at least one chunk has
\* last_packet_time >= start_time, whatever the clock readings at the chunk
\* arrivals, so the duration shown for it in the report is never negative and
\* its throughput is 0 whenever that duration is 0.
C18_LastPacketNotBeforeStart ==
  \A i \in DOMAIN client_metrics :
    LET m == client_metrics[i]
    IN  m.packet_count >= 1 =>
          /\ m.last_packet_time >= m.start_time
          /\ ClientDuration(m) >= 0
          /\ ClientDuration(m) = 0 => ClientMbps(m)[1] = 0

\* xs is the beginning of ys, at most one entry shorter
ExtendedByAtMostOne(xs, ys) ==
  /\ Len(ys) \in {Len(xs), Len(xs) + 1}
  /\ SubSeq(ys, 1, Len(xs)) = xs

\* C19: in every accumulator bitrates is no longer than latencies and
\* latencies no longer than packet_count, both are empty while packet_count
\* is at most 1, and recording a chunk appends at most one entry to each
\* sequence and leaves the earlier entries as they were.
C19_SampleCounts ==
  /\ [](\A i \in DOMAIN client_metrics :
          LET m == client_metrics[i]
          IN  /\ Len(m.bitrates) <= Len(m.latencies)
              /\ Len(m.latencies) <= m.packet_count
              /\ m.packet_count <= 1 => (m.latencies = <<>> /\ m.bitrates = <<>>))
  /\ [][\A i \in DOMAIN client_metrics :
          /\ ExtendedByAtMostOne(client_metrics[i].latencies, client_metrics'[i].latencies)
          /\ ExtendedByAtMostOne(client_metrics[i].bitrates, client_metrics'[i].bitrates)]_vars

\* three chunks were recorded: two latencies, the second with no bitrate
C19_Witness ==
  /\ client_metrics[0].packet_count = 3
  /\ Len(client_metrics[0].latencies) = 2
  /\ Len(client_metrics[0].bitrates) = 1

====
